---- MODULE Spec2Model ----
(***************************************************************************)
(* State-machine model of neutron/services/firewall/fwaas_plugin.py:       *)
(* FirewallPlugin (client request handlers) and FirewallCallbacks (agent   *)
(* RPC handlers), over the firewall / router-association / policy tables   *)
(* kept by firewall_db.Firewall_db_mixin.                                  *)
(***************************************************************************)
EXTENDS Integers, Sequences, FiniteSets, TLC

\* ------------------------------------------------------------------------
\* Bounds
\* ------------------------------------------------------------------------
MaxFw == 2
NumRouters == 2
NumWorkers == 2
\* firewalls created in the interleaved specification
MaxConcFw == 1

FwIds == 1..MaxFw
Routers == 1..NumRouters
Workers == 1..NumWorkers
Policies == {"p1"}
Rules == {"rule1"}
Tenants == {"t1", "t2", "t3"}

\* l3_plugin.get_routers: odd routers belong to t1, even ones to t2, none to t3
RouterTenant(r) == IF r % 2 = 1 THEN "t1" ELSE "t2"

\* ------------------------------------------------------------------------
\* neutron.plugins.common.constants
\* ------------------------------------------------------------------------
ACTIVE == "ACTIVE"
DOWN == "DOWN"
INACTIVE == "INACTIVE"
ERROR == "ERROR"
PENDING_CREATE == "PENDING_CREATE"
PENDING_UPDATE == "PENDING_UPDATE"
PENDING_DELETE == "PENDING_DELETE"

Statuses == {ACTIVE, DOWN, INACTIVE, ERROR,
             PENDING_CREATE, PENDING_UPDATE, PENDING_DELETE}
PendingStates == {PENDING_CREATE, PENDING_UPDATE, PENDING_DELETE}

\* values an agent may pass as `status` to set_firewall_status
ReportedValues == Statuses \cup {"UNKNOWN"}

\* the router_ids argument of a request: the keyword may be absent
RouterArgs == {[specified |-> FALSE, ids |-> {}]}
                \cup {[specified |-> TRUE, ids |-> s] : s \in SUBSET Routers}

\* the firewall_policy_id of an update body: unchanged, or a policy
Keep == "keep"
\* a firewall_policy_id of None
NoPolicy == "None"
PolicyArgs == {Keep, NoPolicy} \cup Policies

VARIABLES
    db,                    \* the tables: fw (id -> row), assoc (fw, router), rules,
                           \* enabled (the `enabled` attribute of each rule)
    uuids,                 \* number of firewall ids generated so far
    firewall_deleted_ids,  \* FirewallCallbacks.firewall_deleted_ids
    deleting,              \* the ids of the firewall_deleted calls that have
                           \* recorded their id and not yet opened their
                           \* transaction
    call,                  \* the handler that returned or raised in the last
                           \* step, with its arguments ("none": no handler did)
    ret,                   \* what it returned or raised
    cast,                  \* the messages it fanout_cast to the agents, in order
    thr                    \* per API worker: the request it is in the middle of
                           \* (pc: the database call it makes next) and the
                           \* locals of that request

vars == <<db, uuids, firewall_deleted_ids, deleting, call, ret, cast, thr>>

\* ------------------------------------------------------------------------
\* firewall_db.Firewall_db_mixin: the persistence the plugin inherits
\* ------------------------------------------------------------------------
Exists(d, id) == id \in DOMAIN d.fw

get_firewall_routers(d, id) == {r \in Routers : <<id, r>> \in d.assoc}

\* validate_firewall_routers_not_in_use raises RoutersInUse
routers_in_use(d, router_ids, fwid) ==
    \E p \in d.assoc : p[2] \in router_ids /\ p[1] # fwid

set_routers_for_firewall(d, id, router_ids) ==
    [d EXCEPT !.assoc = @ \cup {<<id, r>> : r \in router_ids}]

update_firewall_routers(d, id, router_ids) ==
    [d EXCEPT !.assoc = {p \in @ : p[1] # id} \cup {<<id, r>> : r \in router_ids}]

\* create_firewall(context, firewall, status=None): a firewall created without
\* a status starts in PENDING_CREATE
Unset == "None"
db_create_firewall(d, id, status, policy) ==
    [d EXCEPT !.fw = [i \in DOMAIN @ \cup {id} |->
                        IF i = id
                        THEN [status |-> IF status = Unset THEN PENDING_CREATE
                                                           ELSE status,
                              firewall_policy_id |-> policy]
                        ELSE @[i]]]

db_update_firewall(d, id, status, policy) ==
    [d EXCEPT !.fw[id] = [status |-> status,
                          firewall_policy_id |->
                              IF policy = Keep THEN @.firewall_policy_id ELSE policy]]

db_delete_firewall(d, id) ==
    [d EXCEPT !.fw = [i \in DOMAIN @ \ {id} |-> @[i]],
              !.assoc = {p \in @ : p[1] # id}]

firewall_list(d, policy) ==
    {id \in DOMAIN d.fw : d.fw[id].firewall_policy_id = policy}

\* the policy a rule belongs to, as a set (empty when it is in none)
rule_policies(d, rule) == {p \in Policies : rule \in d.rules[p]}

\* update_firewall_policy(context, id, firewall_policy) with a firewall_rules list
db_update_firewall_policy(d, policy, rules) == [d EXCEPT !.rules[policy] = rules]

\* update_firewall_rule(context, id, firewall_rule) with an `enabled` attribute
db_update_firewall_rule(d, rule, enabled) == [d EXCEPT !.enabled[rule] = enabled]

db_insert_rule(d, policy, rule) == [d EXCEPT !.rules[policy] = @ \cup {rule}]

db_remove_rule(d, policy, rule) == [d EXCEPT !.rules[policy] = @ \ {rule}]

\* ------------------------------------------------------------------------
\* Results of a handler
\* ------------------------------------------------------------------------
Return(d, value, msgs) == [db |-> d, ret |-> value, cast |-> msgs]
Raise(d, exc) == [db |-> d, ret |-> exc, cast |-> <<>>]

\* ------------------------------------------------------------------------
\* FirewallPlugin helpers
\* ------------------------------------------------------------------------
\* the payload that _make_firewall_dict_with_rules builds when nothing is
\* written between its reads; the handlers' steps read call by call
\* (pay_get_step to pay_rule_step), the whole-handler variants use this one
make_firewall_dict_with_rules(d, id) ==
    [id |-> id,
     status |-> d.fw[id].status,
     firewall_rule_list |->
         IF d.fw[id].firewall_policy_id # NoPolicy
         THEN {[id |-> x, enabled |-> d.enabled[x]] :
                  x \in d.rules[d.fw[id].firewall_policy_id]}
         ELSE {}]

Message(name, dict, add, del, last) ==
    [msg |-> name, id |-> dict.id, status |-> dict.status,
     firewall_rule_list |-> dict.firewall_rule_list,
     add |-> add, del |-> del, last_router |-> last]

\* variant: the guard forgets PENDING_CREATE
ensure_update_firewall_no_create(fwall) ==
    fwall.status \in {PENDING_UPDATE, PENDING_DELETE}

\* TRUE when _ensure_update_firewall raises FirewallInPendingState on the
\* row fwall that get_firewall gave it
ensure_update_firewall(fwall) ==
    fwall.status \in {PENDING_CREATE, PENDING_UPDATE, PENDING_DELETE}

set_status(d, id, status) == [d EXCEPT !.fw[id].status = status]

\* the orders in which a policy's firewall_list may be iterated
Orders(S) ==
    {o \in [1..Cardinality(S) -> S] : \A i, j \in DOMAIN o : i # j => o[i] # o[j]}

\* variant: the tenant filter is dropped when no router is given
resolve_routers_any_tenant(tenant, router_args) ==
    IF ~router_args.specified THEN Routers ELSE router_args.ids

\* the router ids _get_routers_for_create_firewall resolves
resolve_routers(tenant, router_args) ==
    IF ~router_args.specified
    THEN {r \in Routers : RouterTenant(r) = tenant}
    ELSE router_args.ids

\* TRUE when _get_routers_for_create_firewall raises RoutersInUse
get_routers_for_create_firewall_raises(d, tenant, router_args) ==
    routers_in_use(d, resolve_routers(tenant, router_args), 0)

\* variant: the update always goes to PENDING_UPDATE and is always cast
update_firewall_always_cast(d, id, router_args, policy) ==
    IF ~Exists(d, id) THEN Raise(d, "FirewallNotFound")
    ELSE IF ensure_update_firewall(d.fw[id]) THEN Raise(d, "FirewallInPendingState")
    ELSE LET fw_current_rtrs == get_firewall_routers(d, id) IN
         IF /\ router_args.specified
            /\ router_args.ids # {}
            /\ routers_in_use(d, router_args.ids, id)
         THEN Raise(d, "RoutersInUse")
         ELSE LET d1 == IF router_args.specified
                        THEN update_firewall_routers(d, id, router_args.ids)
                        ELSE d
                  fw_new_rtrs == IF router_args.specified
                                 THEN router_args.ids
                                 ELSE get_firewall_routers(d, id)
                  d2 == db_update_firewall(d1, id, PENDING_UPDATE, policy)
              IN  Return(d2, "ok",
                         <<Message("update_firewall",
                                   make_firewall_dict_with_rules(d2, id),
                                   fw_new_rtrs, fw_current_rtrs \ fw_new_rtrs,
                                   IF fw_new_rtrs = {} THEN "True" ELSE "False")>>)

\* variant: INACTIVE and no cast whenever the new router set is empty
update_firewall_inactive_on_empty(d, id, router_args, policy) ==
    IF ~Exists(d, id) THEN Raise(d, "FirewallNotFound")
    ELSE IF ensure_update_firewall(d.fw[id]) THEN Raise(d, "FirewallInPendingState")
    ELSE LET fw_current_rtrs == get_firewall_routers(d, id) IN
         IF /\ router_args.specified
            /\ router_args.ids # {}
            /\ routers_in_use(d, router_args.ids, id)
         THEN Raise(d, "RoutersInUse")
         ELSE LET d1 == IF router_args.specified
                        THEN update_firewall_routers(d, id, router_args.ids)
                        ELSE d
                  fw_new_rtrs == IF router_args.specified
                                 THEN router_args.ids
                                 ELSE get_firewall_routers(d, id)
              IN  IF fw_new_rtrs = {}
                  THEN Return(db_update_firewall(d1, id, INACTIVE, policy),
                              "ok", <<>>)
                  ELSE LET d2 == db_update_firewall(d1, id, PENDING_UPDATE, policy)
                           fw_with_rules == make_firewall_dict_with_rules(d2, id)
                       IN  Return(d2, "ok",
                                  <<Message("update_firewall", fw_with_rules,
                                            fw_new_rtrs,
                                            fw_current_rtrs \ fw_new_rtrs,
                                            IF fw_new_rtrs = {} THEN "True"
                                                                ELSE "False")>>)

\* variant: last-router is never set
update_firewall_last_router_never(d, id, router_args, policy) ==
    IF ~Exists(d, id) THEN Raise(d, "FirewallNotFound")
    ELSE IF ensure_update_firewall(d.fw[id]) THEN Raise(d, "FirewallInPendingState")
    ELSE LET fw_current_rtrs == get_firewall_routers(d, id) IN
         IF /\ router_args.specified
            /\ router_args.ids # {}
            /\ routers_in_use(d, router_args.ids, id)
         THEN Raise(d, "RoutersInUse")
         ELSE LET d1 == IF router_args.specified
                        THEN update_firewall_routers(d, id, router_args.ids)
                        ELSE d
                  fw_new_rtrs == IF router_args.specified
                                 THEN router_args.ids
                                 ELSE get_firewall_routers(d, id)
              IN  IF fw_new_rtrs = {} /\ fw_current_rtrs = {}
                  THEN Return(db_update_firewall(d1, id, INACTIVE, policy),
                              "ok", <<>>)
                  ELSE LET d2 == db_update_firewall(d1, id, PENDING_UPDATE, policy)
                           fw_with_rules == make_firewall_dict_with_rules(d2, id)
                       IN  Return(d2, "ok",
                                  <<Message("update_firewall", fw_with_rules,
                                            fw_new_rtrs,
                                            fw_current_rtrs \ fw_new_rtrs,
                                            "False")>>)

\* variant: the routers are persisted before they are validated
update_firewall_persist_then_validate(d, id, router_args, policy) ==
    IF ~Exists(d, id) THEN Raise(d, "FirewallNotFound")
    ELSE IF ensure_update_firewall(d.fw[id]) THEN Raise(d, "FirewallInPendingState")
    ELSE LET fw_current_rtrs == get_firewall_routers(d, id) IN
         IF /\ router_args.specified
            /\ router_args.ids # {}
            /\ routers_in_use(d, router_args.ids, id)
         THEN Raise(update_firewall_routers(d, id, router_args.ids), "RoutersInUse")
         ELSE LET d1 == IF router_args.specified
                        THEN update_firewall_routers(d, id, router_args.ids)
                        ELSE d
                  fw_new_rtrs == IF router_args.specified
                                 THEN router_args.ids
                                 ELSE get_firewall_routers(d, id)
              IN  IF fw_new_rtrs = {} /\ fw_current_rtrs = {}
                  THEN Return(db_update_firewall(d1, id, INACTIVE, policy),
                              "ok", <<>>)
                  ELSE LET d2 == db_update_firewall(d1, id, PENDING_UPDATE, policy)
                           fw_with_rules == make_firewall_dict_with_rules(d2, id)
                       IN  Return(d2, "ok",
                                  <<Message("update_firewall", fw_with_rules,
                                            fw_new_rtrs,
                                            fw_current_rtrs \ fw_new_rtrs,
                                            IF fw_new_rtrs = {} THEN "True"
                                                                ELSE "False")>>)

delete_db_firewall_object(d, id) ==
    IF d.fw[id].status = PENDING_DELETE THEN db_delete_firewall(d, id) ELSE d

\* variant: delete_firewall runs the pending-state guard like update_firewall
delete_firewall_guarded(d, id) ==
    IF ~Exists(d, id) THEN Raise(d, "FirewallNotFound")
    ELSE IF ensure_update_firewall(d.fw[id]) THEN Raise(d, "FirewallInPendingState")
    ELSE LET d1 == db_update_firewall(d, id, PENDING_DELETE, Keep)
             del == get_firewall_routers(d1, id)
         IN  IF del = {}
             THEN Return(delete_db_firewall_object(d1, id), "None", <<>>)
             ELSE Return(d1, "None",
                         <<Message("delete_firewall",
                                   make_firewall_dict_with_rules(d1, id),
                                   {}, del, "absent")>>)

\* the firewalls of the policy a rule belongs to (none for a free rule)
rule_firewalls(d, rule) ==
    UNION {firewall_list(d, p) : p \in rule_policies(d, rule)}

\* ------------------------------------------------------------------------
\* FirewallCallbacks
\* ------------------------------------------------------------------------
\* variant: the PENDING_DELETE test is missing
set_firewall_status_no_delete_test(d, id, status) ==
    IF ~Exists(d, id) THEN Raise(d, "FirewallNotFound")
    ELSE IF status \in {ACTIVE, DOWN}
         THEN Return(set_status(d, id, status), "True", <<>>)
         ELSE Return(set_status(d, id, ERROR), "False", <<>>)

\* variant: INACTIVE is accepted as a reported status
set_firewall_status_accepts_inactive(d, id, status) ==
    IF ~Exists(d, id) THEN Raise(d, "FirewallNotFound")
    ELSE IF d.fw[id].status = PENDING_DELETE THEN Return(d, "False", <<>>)
    ELSE IF status \in {ACTIVE, DOWN, INACTIVE}
         THEN Return(set_status(d, id, status), "True", <<>>)
         ELSE Return(set_status(d, id, ERROR), "False", <<>>)

set_firewall_status_result(d, id, status) ==
    IF ~Exists(d, id) THEN Raise(d, "FirewallNotFound")
    ELSE IF d.fw[id].status = PENDING_DELETE THEN Return(d, "False", <<>>)
    ELSE IF status \in {ACTIVE, DOWN}
         THEN Return(set_status(d, id, status), "True", <<>>)
         ELSE Return(set_status(d, id, ERROR), "False", <<>>)

\* variant: an unexpected deletion is reported but the status is left alone
firewall_deleted_txn_no_error(d, id) ==
    IF ~Exists(d, id) THEN Raise(d, "FirewallNotFound")
    ELSE IF d.fw[id].status \in {PENDING_DELETE, ERROR}
         THEN Return(delete_db_firewall_object(d, id), "True", <<>>)
         ELSE Return(d, "False", <<>>)

\* variant: the id is tested but not recorded
firewall_deleted_begin_no_record(ids, id) ==
    [first |-> id \notin ids, ids |-> ids]

\* firewall_deleted before its transaction: the test of the id against
\* firewall_deleted_ids (ids) and the append.  first tells whether the body
\* is entered; ids is the new value of the list
firewall_deleted_begin(ids, id) ==
    [first |-> id \notin ids, ids |-> ids \cup {id}]

\* the transaction of firewall_deleted
firewall_deleted_txn(d, id) ==
    IF ~Exists(d, id) THEN Raise(d, "FirewallNotFound")
    ELSE IF d.fw[id].status \in {PENDING_DELETE, ERROR}
         THEN Return(delete_db_firewall_object(d, id), "True", <<>>)
         ELSE Return(set_status(d, id, ERROR), "False", <<>>)

\* firewall_deleted with no other call between the append and the
\* transaction; the result carries the new value of firewall_deleted_ids too
firewall_deleted_result(d, ids, id) ==
    LET b == firewall_deleted_begin(ids, id)
        r == IF b.first THEN firewall_deleted_txn(d, id)
                        ELSE Return(d, "None", <<>>)
    IN  [db |-> r.db, ret |-> r.ret, cast |-> r.cast, ids |-> b.ids]

\* ------------------------------------------------------------------------
\* Requests in progress.  No handler of FirewallPlugin opens a transaction,
\* so every call into the database commits alone and another API worker or
\* an agent call can run between any two of them.  A step takes the store and
\* the locals of the request (t) through one database call: it gives the new
\* store and either the new locals or, when the handler returns or raises,
\* its result and the messages it has cast.
\* ------------------------------------------------------------------------
\* where a request can be: before its first database call (idle), or before
\* the call the position names
Positions == {"idle", "crt_record", "crt_assoc",
              "pay_get", "pay_routers", "pay_policy", "pay_rule",
              "upd_ensure_routers", "upd_current", "upd_validate",
              "upd_reread", "upd_assoc", "upd_status",
              "del_routers", "del_get", "del_get_routers", "del_object",
              "edit_guard_policy", "edit_guard_get", "edit_guard_routers",
              "edit_commit", "edit_list", "edit_status", "edit_lookup"}

Idle == [pc |-> "idle"]
Done == [pc |-> "done"]
Go(d, t) == [db |-> d, t |-> t, ret |-> "None", cast |-> <<>>]
End(d, value, msgs) == [db |-> d, t |-> Done, ret |-> value, cast |-> msgs]

\* a row of the association table for a firewall that is gone: the table
\* accepts it, or refuses it when it enforces the reference (fk)
assoc_write_ok(d, id, fk) == Exists(d, id) \/ ~fk

EditOps == {"update_firewall_policy", "update_firewall_rule",
            "insert_rule", "remove_rule"}

\* the messages a request has cast so far: only an edit casts before its
\* last database call
Sent(t) == IF t.op \in EditOps THEN t.msgs ELSE <<>>

\* --- _make_firewall_dict_with_rules --------------------------------------
\* The inherited get_firewall reads the row and then its routers; the policy
\* and each of its rules are read by further calls.  pay holds what has been
\* read: the row's status and firewall_policy_id, the rules still to read
\* and the firewall_rule_list read so far.
Unread == [status |-> "None", policy |-> "None", rules |-> {}, list |-> {}]

\* the dictionary once the last call has returned
fw_with_rules(t) ==
    [id |-> t.id, status |-> t.pay.status, firewall_rule_list |-> t.pay.list]

\* what the handler does with the dictionary: create_firewall and
\* delete_firewall go on to their next call, _rpc_update_firewall to its
\* lookup of the routers, update_firewall casts and returns
payload_done(d, t, list) ==
    LET t1 == [t EXCEPT !.pay = [status |-> t.pay.status, policy |-> "None",
                                 rules |-> {}, list |-> list]]
    IN  CASE t.op = "create_firewall" -> Go(d, [t1 EXCEPT !.pc = "crt_assoc"])
          [] t.op = "delete_firewall" -> Go(d, [t1 EXCEPT !.pc = "del_routers"])
          [] t.op = "update_firewall" ->
               End(d, "ok",
                   <<Message("update_firewall", fw_with_rules(t1),
                             t.fw_new_rtrs, t.fw_current_rtrs \ t.fw_new_rtrs,
                             IF t.fw_new_rtrs = {} THEN "True" ELSE "False")>>)
          [] t.op \in EditOps -> Go(d, [t1 EXCEPT !.pc = "edit_lookup"])

\* get_firewall: the row
pay_get_step(d, t) ==
    IF ~Exists(d, t.id) THEN End(d, "FirewallNotFound", Sent(t))
    ELSE Go(d, [t EXCEPT !.pc = "pay_routers",
                         !.pay = [status |-> d.fw[t.id].status,
                                  policy |-> d.fw[t.id].firewall_policy_id,
                                  rules |-> {}, list |-> {}]])

\* get_firewall: the routers of the row; then `if fw_policy_id`
pay_routers_step(d, t) ==
    IF t.pay.policy = NoPolicy
    THEN payload_done(d, t, {})
    ELSE Go(d, [t EXCEPT !.pc = "pay_policy"])

\* get_firewall_policy: the policy's firewall_rules
pay_policy_step(d, t) ==
    IF d.rules[t.pay.policy] = {}
    THEN payload_done(d, t, {})
    ELSE Go(d, [t EXCEPT !.pc = "pay_rule",
                         !.pay = [status |-> t.pay.status, policy |-> "None",
                                  rules |-> d.rules[t.pay.policy],
                                  list |-> {}]])

\* get_firewall_rule: the next rule of the list
pay_rule_step(d, t) ==
    LET x == CHOOSE x \in t.pay.rules : TRUE
        list == t.pay.list \cup {[id |-> x, enabled |-> d.enabled[x]]}
    IN  IF t.pay.rules = {x}
        THEN payload_done(d, t, list)
        ELSE Go(d, [t EXCEPT !.pay.rules = @ \ {x}, !.pay.list = list])

PayloadPositions == {"pay_get", "pay_routers", "pay_policy", "pay_rule"}

payload_step(d, t) ==
    CASE t.pc = "pay_get" -> pay_get_step(d, t)
      [] t.pc = "pay_routers" -> pay_routers_step(d, t)
      [] t.pc = "pay_policy" -> pay_policy_step(d, t)
      [] t.pc = "pay_rule" -> pay_rule_step(d, t)

\* --- create_firewall ---------------------------------------------------
\* router_ids not given, or given and not empty: the validation of the
\* routers resolved
crt_validate_step(d, tenant, router_args) ==
    IF get_routers_for_create_firewall_raises(d, tenant, router_args)
    THEN End(d, "RoutersInUse", <<>>)
    ELSE Go(d, [pc |-> "crt_record", op |-> "create_firewall",
                fw_new_rtrs |-> resolve_routers(tenant, router_args)])

\* the inherited create_firewall; it is the first call of the handler when
\* router_ids is given and empty
crt_record_step(d, fw_new_rtrs, id, policy) ==
    IF fw_new_rtrs = {}
    THEN End(db_create_firewall(d, id, INACTIVE, policy), "ok", <<>>)
    ELSE Go(db_create_firewall(d, id, Unset, policy),
            [pc |-> "pay_get", op |-> "create_firewall", id |-> id,
             fw_new_rtrs |-> fw_new_rtrs, pay |-> Unread])

crt_assoc_step(d, t, fk) ==
    IF ~assoc_write_ok(d, t.id, fk)
    THEN End(d, "DBError", <<>>)
    ELSE End(set_routers_for_firewall(d, t.id, t.fw_new_rtrs), "ok",
             <<Message("create_firewall", fw_with_rules(t),
                       t.fw_new_rtrs, {}, "absent")>>)

\* TRUE when router_ids is given and empty (lines 245-247)
no_routers_given(router_args) == router_args.specified /\ router_args.ids = {}

\* the handler run from t to its end with nothing in between
RECURSIVE create_firewall_run(_, _, _, _, _, _, _)
create_firewall_run(d, t, id, tenant, router_args, policy, fk) ==
    LET s == CASE t.pc = "idle" ->
                    IF no_routers_given(router_args)
                    THEN crt_record_step(d, {}, id, policy)
                    ELSE crt_validate_step(d, tenant, router_args)
               [] t.pc = "crt_record" ->
                    crt_record_step(d, t.fw_new_rtrs, id, policy)
               [] t.pc \in PayloadPositions -> payload_step(d, t)
               [] t.pc = "crt_assoc" -> crt_assoc_step(d, t, fk)
    IN  IF s.t.pc = "done"
        THEN Return(s.db, s.ret, s.cast)
        ELSE create_firewall_run(s.db, s.t, id, tenant, router_args, policy, fk)

\* --- update_firewall ---------------------------------------------------
\* _ensure_update_firewall, get_firewall: the row
upd_ensure_step(d, id) ==
    IF ~Exists(d, id) THEN End(d, "FirewallNotFound", <<>>)
    ELSE Go(d, [pc |-> "upd_ensure_routers", op |-> "update_firewall",
                id |-> id, fwall |-> [status |-> d.fw[id].status]])

\* _ensure_update_firewall, get_firewall: the routers of the row; then the
\* test of the status that was read
upd_ensure_routers_step(d, t) ==
    IF ensure_update_firewall(t.fwall)
    THEN End(d, "FirewallInPendingState", <<>>)
    ELSE Go(d, [pc |-> "upd_current", op |-> "update_firewall", id |-> t.id])

\* the router_ids of the body: absent, empty, or some routers
RouterKinds == {"absent", "empty", "given"}
router_kind(router_args) ==
    IF ~router_args.specified THEN "absent"
    ELSE IF router_args.ids = {} THEN "empty" ELSE "given"

\* fw_current_rtrs; the next call depends on router_ids
upd_current_step(d, t, kind) ==
    LET cur == get_firewall_routers(d, t.id) IN
    CASE kind = "absent" ->
           Go(d, [pc |-> "upd_reread", op |-> "update_firewall", id |-> t.id,
                  fw_current_rtrs |-> cur])
      [] kind = "empty" ->
           Go(d, [pc |-> "upd_assoc", op |-> "update_firewall", id |-> t.id,
                  fw_current_rtrs |-> cur, fw_new_rtrs |-> {}])
      [] kind = "given" ->
           Go(d, [pc |-> "upd_validate", op |-> "update_firewall", id |-> t.id,
                  fw_current_rtrs |-> cur])

\* validate_firewall_routers_not_in_use
upd_validate_step(d, t, router_ids) ==
    IF routers_in_use(d, router_ids, t.id)
    THEN End(d, "RoutersInUse", <<>>)
    ELSE Go(d, [pc |-> "upd_assoc", op |-> "update_firewall", id |-> t.id,
                fw_current_rtrs |-> t.fw_current_rtrs,
                fw_new_rtrs |-> router_ids])

\* router_ids absent: the second read of the routers
upd_reread_step(d, t) ==
    Go(d, [pc |-> "upd_status", op |-> "update_firewall", id |-> t.id,
           fw_current_rtrs |-> t.fw_current_rtrs,
           fw_new_rtrs |-> get_firewall_routers(d, t.id)])

upd_assoc_step(d, t, fk) ==
    IF ~assoc_write_ok(d, t.id, fk)
    THEN End(d, "DBError", <<>>)
    ELSE Go(update_firewall_routers(d, t.id, t.fw_new_rtrs),
            [t EXCEPT !.pc = "upd_status"])

upd_status_step(d, t, policy) ==
    IF ~Exists(d, t.id) THEN End(d, "FirewallNotFound", <<>>)
    ELSE IF t.fw_new_rtrs = {} /\ t.fw_current_rtrs = {}
    THEN End(db_update_firewall(d, t.id, INACTIVE, policy), "ok", <<>>)
    ELSE Go(db_update_firewall(d, t.id, PENDING_UPDATE, policy),
            [pc |-> "pay_get", op |-> "update_firewall", id |-> t.id,
             fw_current_rtrs |-> t.fw_current_rtrs,
             fw_new_rtrs |-> t.fw_new_rtrs, pay |-> Unread])

RECURSIVE update_firewall_run(_, _, _, _, _, _)
update_firewall_run(d, t, id, router_args, policy, fk) ==
    LET s == CASE t.pc = "idle" -> upd_ensure_step(d, id)
               [] t.pc = "upd_ensure_routers" -> upd_ensure_routers_step(d, t)
               [] t.pc = "upd_current" ->
                    upd_current_step(d, t, router_kind(router_args))
               [] t.pc = "upd_validate" ->
                    upd_validate_step(d, t, router_args.ids)
               [] t.pc = "upd_reread" -> upd_reread_step(d, t)
               [] t.pc = "upd_assoc" -> upd_assoc_step(d, t, fk)
               [] t.pc = "upd_status" -> upd_status_step(d, t, policy)
               [] t.pc \in PayloadPositions -> payload_step(d, t)
    IN  IF s.t.pc = "done"
        THEN Return(s.db, s.ret, s.cast)
        ELSE update_firewall_run(s.db, s.t, id, router_args, policy, fk)

\* --- delete_firewall ---------------------------------------------------
del_status_step(d, id) ==
    IF ~Exists(d, id) THEN End(d, "FirewallNotFound", <<>>)
    ELSE Go(db_update_firewall(d, id, PENDING_DELETE, Keep),
            [pc |-> "pay_get", op |-> "delete_firewall", id |-> id,
             pay |-> Unread])

del_routers_step(d, t) ==
    LET del == get_firewall_routers(d, t.id) IN
    IF del = {}
    THEN Go(d, [pc |-> "del_get", op |-> "delete_firewall", id |-> t.id])
    ELSE End(d, "None", <<Message("delete_firewall", fw_with_rules(t),
                                  {}, del, "absent")>>)

\* delete_db_firewall_object, get_firewall: the row
del_get_step(d, t) ==
    IF ~Exists(d, t.id) THEN End(d, "FirewallNotFound", <<>>)
    ELSE Go(d, [pc |-> "del_get_routers", op |-> "delete_firewall",
                id |-> t.id, firewall |-> [status |-> d.fw[t.id].status]])

\* delete_db_firewall_object, get_firewall: the routers of the row; then the
\* test of the status that was read
del_get_routers_step(d, t) ==
    IF t.firewall.status = PENDING_DELETE
    THEN Go(d, [pc |-> "del_object", op |-> "delete_firewall", id |-> t.id])
    ELSE End(d, "None", <<>>)

\* delete_db_firewall_object: the deletion
del_object_step(d, t) ==
    IF ~Exists(d, t.id) THEN End(d, "FirewallNotFound", <<>>)
    ELSE End(db_delete_firewall(d, t.id), "None", <<>>)

RECURSIVE delete_firewall_run(_, _, _)
delete_firewall_run(d, t, id) ==
    LET s == CASE t.pc = "idle" -> del_status_step(d, id)
               [] t.pc \in PayloadPositions -> payload_step(d, t)
               [] t.pc = "del_routers" -> del_routers_step(d, t)
               [] t.pc = "del_get" -> del_get_step(d, t)
               [] t.pc = "del_get_routers" -> del_get_routers_step(d, t)
               [] t.pc = "del_object" -> del_object_step(d, t)
    IN  IF s.t.pc = "done"
        THEN Return(s.db, s.ret, s.cast)
        ELSE delete_firewall_run(s.db, s.t, id)

\* --- update_firewall_policy, update_firewall_rule, insert_rule, remove_rule
\* what a request edits: a rule for update_firewall_rule, else a policy
EditTargets(op) == IF op = "update_firewall_rule" THEN Rules ELSE Policies

\* _ensure_update_firewall_policy, get_firewall_policy: the firewall_list of
\* the policy, in the order it will be iterated
edit_guard_policy_step(d, op, target, order) ==
    IF order = <<>>
    THEN Go(d, [pc |-> "edit_commit", op |-> op, target |-> target])
    ELSE Go(d, [pc |-> "edit_guard_get", op |-> op, target |-> target,
                todo |-> order])

\* _ensure_update_firewall_rule, get_firewall_rule: the policy of the rule
edit_guard_rule_step(d, op, target) ==
    IF rule_policies(d, target) = {}
    THEN Go(d, [pc |-> "edit_commit", op |-> op, target |-> target])
    ELSE Go(d, [pc |-> "edit_guard_policy", op |-> op, target |-> target,
                policy |-> CHOOSE p \in rule_policies(d, target) : TRUE])

\* _ensure_update_firewall of the next firewall, get_firewall: the row
edit_guard_get_step(d, t) ==
    IF ~Exists(d, Head(t.todo)) THEN End(d, "FirewallNotFound", <<>>)
    ELSE Go(d, [pc |-> "edit_guard_routers", op |-> t.op, target |-> t.target,
                todo |-> Tail(t.todo),
                fwall |-> [status |-> d.fw[Head(t.todo)].status]])

\* variant: the guard reads the firewalls of the policy and refuses none
edit_guard_routers_no_test(d, t) ==
    IF t.todo = <<>>
    THEN Go(d, [pc |-> "edit_commit", op |-> t.op, target |-> t.target])
    ELSE Go(d, [pc |-> "edit_guard_get", op |-> t.op, target |-> t.target,
                todo |-> t.todo])

\* _ensure_update_firewall, get_firewall: the routers of the row; then the
\* test of the status that was read
edit_guard_routers_step(d, t) ==
    IF ensure_update_firewall(t.fwall)
    THEN End(d, "FirewallInPendingState", <<>>)
    ELSE IF t.todo = <<>>
    THEN Go(d, [pc |-> "edit_commit", op |-> t.op, target |-> t.target])
    ELSE Go(d, [pc |-> "edit_guard_get", op |-> t.op, target |-> t.target,
                todo |-> t.todo])

\* what the inherited edit raises before it writes, "None" when it goes
\* through: a rule can be in one policy only, and only a rule of the policy
\* can be removed from it
edit_refusal(d, op, target, arg) ==
    CASE op = "update_firewall_policy" ->
           IF \E x \in arg : rule_policies(d, x) \ {target} # {}
           THEN "FirewallRuleInUse" ELSE "None"
      [] op = "insert_rule" ->
           IF rule_policies(d, arg) # {} THEN "FirewallRuleInUse" ELSE "None"
      [] op = "remove_rule" ->
           IF arg \notin d.rules[target]
           THEN "FirewallRuleNotAssociatedWithPolicy" ELSE "None"
      [] op = "update_firewall_rule" -> "None"

\* the store after the inherited edit
edit_store(d, op, target, arg) ==
    CASE op = "update_firewall_policy" -> db_update_firewall_policy(d, target, arg)
      [] op = "insert_rule" -> db_insert_rule(d, target, arg)
      [] op = "remove_rule" -> db_remove_rule(d, target, arg)
      [] op = "update_firewall_rule" -> db_update_firewall_rule(d, target, arg)

\* the inherited edit; arg is the firewall_rules list of the body, the rule
\* to insert or remove, or the new `enabled` of the rule.  The fan-out goes
\* to the policy edited, or to the policy of the rule edited when it has one
edit_commit_step(d, t, arg) ==
    IF edit_refusal(d, t.op, t.target, arg) # "None"
    THEN End(d, edit_refusal(d, t.op, t.target, arg), <<>>)
    ELSE LET d1 == edit_store(d, t.op, t.target, arg) IN
         IF t.op # "update_firewall_rule"
         THEN Go(d1, [pc |-> "edit_list", op |-> t.op, target |-> t.target,
                      policy |-> t.target])
         ELSE IF rule_policies(d1, t.target) = {}
         THEN End(d1, "ok", <<>>)
         ELSE Go(d1, [pc |-> "edit_list", op |-> t.op, target |-> t.target,
                      policy |-> CHOOSE p \in rule_policies(d1, t.target) : TRUE])

\* _rpc_update_firewall_policy, get_firewall_policy: the policy's
\* firewall_list, in the order it will be iterated; lookup_ok is what the
\* driver does with the lookup of _rpc_update_firewall
edit_list_step(d, t, order, lookup_ok) ==
    IF order = <<>>
    THEN End(d, "ok", <<>>)
    ELSE Go(d, [pc |-> "edit_status", op |-> t.op, target |-> t.target,
                id |-> Head(order), todo |-> Tail(order), msgs |-> <<>>,
                lookup_ok |-> lookup_ok, pay |-> Unread])

\* _rpc_update_firewall: the status write
edit_status_step(d, t) ==
    IF ~Exists(d, t.id)
    THEN End(d, "FirewallNotFound", t.msgs)
    ELSE Go(db_update_firewall(d, t.id, PENDING_UPDATE, Keep),
            [t EXCEPT !.pc = "pay_get"])

\* _rpc_update_firewall: the lookup of the routers and the cast.
\* fw_with_rules['add-router-ids'] = self.get_firewall_routers(context, id):
\* `id` is not bound in _rpc_update_firewall, so the builtin function is
\* passed as the firewall id.  Depending on the database driver the query
\* matches no row (lookup_ok) or fails to bind the parameter.
edit_lookup_step(d, t) ==
    IF ~t.lookup_ok
    THEN End(d, "DBError", t.msgs)
    ELSE LET msgs == Append(t.msgs, Message("update_firewall", fw_with_rules(t),
                                            {}, {}, "absent"))
         IN  IF t.todo = <<>>
             THEN End(d, "ok", msgs)
             ELSE Go(d, [t EXCEPT !.pc = "edit_status", !.id = Head(t.todo),
                                  !.todo = Tail(t.todo), !.msgs = msgs,
                                  !.pay = Unread])

\* the first call of an edit handler
edit_guard_step(d, op, target, order) ==
    IF op = "update_firewall_rule"
    THEN edit_guard_rule_step(d, op, target)
    ELSE edit_guard_policy_step(d, op, target, order)

RECURSIVE edit_run(_, _, _, _, _, _, _)
edit_run(d, t, op, target, arg, order, lookup_ok) ==
    LET s == CASE t.pc = "idle" -> edit_guard_step(d, op, target, order)
               [] t.pc = "edit_guard_policy" ->
                    edit_guard_policy_step(d, op, target, order)
               [] t.pc = "edit_guard_get" -> edit_guard_get_step(d, t)
               [] t.pc = "edit_guard_routers" -> edit_guard_routers_step(d, t)
               [] t.pc = "edit_commit" -> edit_commit_step(d, t, arg)
               [] t.pc = "edit_list" -> edit_list_step(d, t, order, lookup_ok)
               [] t.pc = "edit_status" -> edit_status_step(d, t)
               [] t.pc \in PayloadPositions -> payload_step(d, t)
               [] t.pc = "edit_lookup" -> edit_lookup_step(d, t)
    IN  IF s.t.pc = "done"
        THEN Return(s.db, s.ret, s.cast)
        ELSE edit_run(s.db, s.t, op, target, arg, order, lookup_ok)

\* ------------------------------------------------------------------------
\* A handler run alone: its steps one after the other from the store d, with
\* no other request and no agent call between its database calls
\* ------------------------------------------------------------------------
create_firewall_result(d, id, tenant, router_args, policy) ==
    create_firewall_run(d, Idle, id, tenant, router_args, policy, TRUE)

update_firewall_result(d, id, router_args, policy) ==
    update_firewall_run(d, Idle, id, router_args, policy, TRUE)

delete_firewall_result(d, id) == delete_firewall_run(d, Idle, id)

update_firewall_policy_result(d, policy, rules, order, lookup_ok) ==
    edit_run(d, Idle, "update_firewall_policy", policy, rules, order, lookup_ok)

insert_rule_result(d, policy, rule, order, lookup_ok) ==
    edit_run(d, Idle, "insert_rule", policy, rule, order, lookup_ok)

remove_rule_result(d, policy, rule, order, lookup_ok) ==
    edit_run(d, Idle, "remove_rule", policy, rule, order, lookup_ok)

update_firewall_rule_result(d, rule, enabled, order, lookup_ok) ==
    edit_run(d, Idle, "update_firewall_rule", rule, enabled, order, lookup_ok)

\* call when the last step ended no handler
NoCall == [op |-> "none", id |-> 0]

\* ------------------------------------------------------------------------
\* Initial state: empty tables, a fresh FirewallCallbacks, idle API workers
\* ------------------------------------------------------------------------
Init ==
    /\ db = [fw |-> << >>, assoc |-> {}, rules |-> [p \in Policies |-> {}],
             enabled |-> [x \in Rules |-> TRUE]]
    /\ uuids = 0
    /\ firewall_deleted_ids = {}
    /\ deleting = {}
    /\ call = NoCall
    /\ ret = "None"
    /\ cast = << >>
    /\ thr = [w \in Workers |-> Idle]

Apply(r) ==
    /\ db' = r.db
    /\ ret' = r.ret
    /\ cast' = r.cast

\* worker w takes the step with outcome r of the request c: the request goes
\* on, or it ends and call, ret and cast tell how
Take(w, c, r) ==
    /\ db' = r.db
    /\ IF r.t.pc = "done"
       THEN /\ thr' = [thr EXCEPT ![w] = Idle]
            /\ call' = c
            /\ ret' = r.ret
            /\ cast' = r.cast
       ELSE /\ thr' = [thr EXCEPT ![w] = r.t]
            /\ call' = NoCall
            /\ ret' = "None"
            /\ cast' = << >>

\* ids a caller can know: those handed out by create_firewall
Known == 1..uuids

\* the request worker w is in the middle of, as `call` shows it
CallOf(t) ==
    IF t.op \in EditOps THEN [op |-> t.op, id |-> t.target]
    ELSE IF t.op = "update_firewall" /\ t.pc \in PayloadPositions \cup {"upd_status"}
    THEN [op |-> t.op, id |-> t.id, rtrs |-> t.fw_current_rtrs]
    ELSE [op |-> t.op, id |-> t.id]

\* ------------------------------------------------------------------------
\* Client requests, one database call at a time
\* ------------------------------------------------------------------------
\* a create_firewall is accepted while fewer than max firewalls have been
\* or are being created
crt_room(max) ==
    uuids + Cardinality({v \in Workers : thr[v].pc = "crt_record"}) < max

crt_validate(w, max) ==
    /\ thr[w].pc = "idle"
    /\ crt_room(max)
    /\ \E tenant \in Tenants, router_args \in RouterArgs :
          /\ ~no_routers_given(router_args)
          /\ Take(w, [op |-> "create_firewall", id |-> uuids + 1],
                  crt_validate_step(db, tenant, router_args))
    /\ UNCHANGED <<uuids, firewall_deleted_ids, deleting>>

\* create_firewall with router_ids = []: the record is its only call
crt_no_routers(w, max) ==
    /\ thr[w].pc = "idle"
    /\ crt_room(max)
    /\ \E policy \in Policies \cup {NoPolicy} :
          Take(w, [op |-> "create_firewall", id |-> uuids + 1],
               crt_record_step(db, {}, uuids + 1, policy))
    /\ uuids' = uuids + 1
    /\ UNCHANGED <<firewall_deleted_ids, deleting>>

crt_record(w) ==
    /\ thr[w].pc = "crt_record"
    /\ \E policy \in Policies \cup {NoPolicy} :
          Take(w, [op |-> "create_firewall", id |-> uuids + 1],
               crt_record_step(db, thr[w].fw_new_rtrs, uuids + 1, policy))
    /\ uuids' = uuids + 1
    /\ UNCHANGED <<firewall_deleted_ids, deleting>>

crt_assoc(w) ==
    /\ thr[w].pc = "crt_assoc"
    /\ \E fk \in BOOLEAN :
          Take(w, CallOf(thr[w]), crt_assoc_step(db, thr[w], fk))
    /\ UNCHANGED <<uuids, firewall_deleted_ids, deleting>>

\* _make_firewall_dict_with_rules: get_firewall (the row, then its routers)
\* and get_firewall_policy
pay_get(w) ==
    /\ thr[w].pc = "pay_get"
    /\ Take(w, CallOf(thr[w]), pay_get_step(db, thr[w]))
    /\ UNCHANGED <<uuids, firewall_deleted_ids, deleting>>

pay_routers(w) ==
    /\ thr[w].pc = "pay_routers"
    /\ Take(w, CallOf(thr[w]), pay_routers_step(db, thr[w]))
    /\ UNCHANGED <<uuids, firewall_deleted_ids, deleting>>

pay_policy(w) ==
    /\ thr[w].pc = "pay_policy"
    /\ Take(w, CallOf(thr[w]), pay_policy_step(db, thr[w]))
    /\ UNCHANGED <<uuids, firewall_deleted_ids, deleting>>

\* _make_firewall_dict_with_rules: get_firewall_rule
pay_rule(w) ==
    /\ thr[w].pc = "pay_rule"
    /\ Take(w, CallOf(thr[w]), pay_rule_step(db, thr[w]))
    /\ UNCHANGED <<uuids, firewall_deleted_ids, deleting>>

upd_ensure(w) ==
    /\ thr[w].pc = "idle"
    /\ \E id \in Known :
          Take(w, [op |-> "update_firewall", id |-> id],
               upd_ensure_step(db, id))
    /\ UNCHANGED <<uuids, firewall_deleted_ids, deleting>>

upd_ensure_routers(w) ==
    /\ thr[w].pc = "upd_ensure_routers"
    /\ Take(w, CallOf(thr[w]), upd_ensure_routers_step(db, thr[w]))
    /\ UNCHANGED <<uuids, firewall_deleted_ids, deleting>>

upd_current(w) ==
    /\ thr[w].pc = "upd_current"
    /\ \E kind \in RouterKinds :
          Take(w, CallOf(thr[w]), upd_current_step(db, thr[w], kind))
    /\ UNCHANGED <<uuids, firewall_deleted_ids, deleting>>

upd_validate(w) ==
    /\ thr[w].pc = "upd_validate"
    /\ \E router_ids \in SUBSET Routers \ {{}} :
          Take(w, CallOf(thr[w]), upd_validate_step(db, thr[w], router_ids))
    /\ UNCHANGED <<uuids, firewall_deleted_ids, deleting>>

upd_reread(w) ==
    /\ thr[w].pc = "upd_reread"
    /\ Take(w, CallOf(thr[w]), upd_reread_step(db, thr[w]))
    /\ UNCHANGED <<uuids, firewall_deleted_ids, deleting>>

upd_assoc(w) ==
    /\ thr[w].pc = "upd_assoc"
    /\ \E fk \in BOOLEAN :
          Take(w, CallOf(thr[w]), upd_assoc_step(db, thr[w], fk))
    /\ UNCHANGED <<uuids, firewall_deleted_ids, deleting>>

\* rtrs in call: the routers the request read before it changed them
upd_status(w) ==
    /\ thr[w].pc = "upd_status"
    /\ \E policy \in PolicyArgs :
          Take(w, CallOf(thr[w]), upd_status_step(db, thr[w], policy))
    /\ UNCHANGED <<uuids, firewall_deleted_ids, deleting>>

del_status(w) ==
    /\ thr[w].pc = "idle"
    /\ \E id \in Known :
          Take(w, [op |-> "delete_firewall", id |-> id],
               del_status_step(db, id))
    /\ UNCHANGED <<uuids, firewall_deleted_ids, deleting>>

del_routers(w) ==
    /\ thr[w].pc = "del_routers"
    /\ Take(w, CallOf(thr[w]), del_routers_step(db, thr[w]))
    /\ UNCHANGED <<uuids, firewall_deleted_ids, deleting>>

del_get(w) ==
    /\ thr[w].pc = "del_get"
    /\ Take(w, CallOf(thr[w]), del_get_step(db, thr[w]))
    /\ UNCHANGED <<uuids, firewall_deleted_ids, deleting>>

del_get_routers(w) ==
    /\ thr[w].pc = "del_get_routers"
    /\ Take(w, CallOf(thr[w]), del_get_routers_step(db, thr[w]))
    /\ UNCHANGED <<uuids, firewall_deleted_ids, deleting>>

del_object(w) ==
    /\ thr[w].pc = "del_object"
    /\ Take(w, CallOf(thr[w]), del_object_step(db, thr[w]))
    /\ UNCHANGED <<uuids, firewall_deleted_ids, deleting>>

\* the argument of an edit: the policy's new firewall_rules list, the rule to
\* insert or remove, the rule's new `enabled`
EditArgs(op) ==
    CASE op = "update_firewall_policy" -> SUBSET Rules
      [] op = "update_firewall_rule" -> BOOLEAN
      [] OTHER -> Rules

\* update_firewall_policy, insert_rule, remove_rule: the first call
edit_guard(w) ==
    /\ thr[w].pc = "idle"
    /\ \E op \in EditOps \ {"update_firewall_rule"} :
       \E target \in EditTargets(op) :
       \E order \in Orders(firewall_list(db, target)) :
          Take(w, [op |-> op, id |-> target],
               edit_guard_policy_step(db, op, target, order))
    /\ UNCHANGED <<uuids, firewall_deleted_ids, deleting>>

\* update_firewall_rule: the first call
edit_guard_rule(w) ==
    /\ thr[w].pc = "idle"
    /\ \E target \in Rules :
          Take(w, [op |-> "update_firewall_rule", id |-> target],
               edit_guard_rule_step(db, "update_firewall_rule", target))
    /\ UNCHANGED <<uuids, firewall_deleted_ids, deleting>>

edit_guard_policy(w) ==
    /\ thr[w].pc = "edit_guard_policy"
    /\ \E order \in Orders(firewall_list(db, thr[w].policy)) :
          Take(w, CallOf(thr[w]),
               edit_guard_policy_step(db, thr[w].op, thr[w].target, order))
    /\ UNCHANGED <<uuids, firewall_deleted_ids, deleting>>

edit_guard_get(w) ==
    /\ thr[w].pc = "edit_guard_get"
    /\ Take(w, CallOf(thr[w]), edit_guard_get_step(db, thr[w]))
    /\ UNCHANGED <<uuids, firewall_deleted_ids, deleting>>

edit_guard_routers(w) ==
    /\ thr[w].pc = "edit_guard_routers"
    /\ Take(w, CallOf(thr[w]), edit_guard_routers_step(db, thr[w]))
    /\ UNCHANGED <<uuids, firewall_deleted_ids, deleting>>

edit_commit(w) ==
    /\ thr[w].pc = "edit_commit"
    /\ \E arg \in EditArgs(thr[w].op) :
          Take(w, CallOf(thr[w]), edit_commit_step(db, thr[w], arg))
    /\ UNCHANGED <<uuids, firewall_deleted_ids, deleting>>

edit_list(w) ==
    /\ thr[w].pc = "edit_list"
    /\ \E order \in Orders(firewall_list(db, thr[w].policy)),
          lookup_ok \in BOOLEAN :
          Take(w, CallOf(thr[w]), edit_list_step(db, thr[w], order, lookup_ok))
    /\ UNCHANGED <<uuids, firewall_deleted_ids, deleting>>

edit_status(w) ==
    /\ thr[w].pc = "edit_status"
    /\ Take(w, CallOf(thr[w]), edit_status_step(db, thr[w]))
    /\ UNCHANGED <<uuids, firewall_deleted_ids, deleting>>

edit_lookup(w) ==
    /\ thr[w].pc = "edit_lookup"
    /\ Take(w, CallOf(thr[w]), edit_lookup_step(db, thr[w]))
    /\ UNCHANGED <<uuids, firewall_deleted_ids, deleting>>

\* ------------------------------------------------------------------------
\* Agent calls.  set_firewall_status runs in one transaction of the session.
\* firewall_deleted tests and records its id first and opens its transaction
\* afterwards, so that other calls, a firewall_deleted for the same id among
\* them, can run in between
\* ------------------------------------------------------------------------
set_firewall_status ==
    /\ \E id \in Known, status \in ReportedValues :
          /\ Apply(set_firewall_status_result(db, id, status))
          /\ call' = [op |-> "set_firewall_status", id |-> id]
    /\ UNCHANGED <<uuids, firewall_deleted_ids, deleting, thr>>

\* the call arrives: its id is in the list and it returns None, or the id is
\* recorded and the call goes on to its transaction
firewall_deleted ==
    /\ \E id \in Known :
          LET b == firewall_deleted_begin(firewall_deleted_ids, id)
          IN  /\ firewall_deleted_ids' = b.ids
              /\ IF b.first
                 THEN /\ deleting' = deleting \cup {id}
                      /\ call' = NoCall
                 ELSE /\ deleting' = deleting
                      /\ call' = [op |-> "firewall_deleted", id |-> id,
                                  first |-> FALSE,
                                  was |-> IF Exists(db, id) THEN db.fw[id].status
                                                            ELSE "absent"]
    /\ ret' = "None"
    /\ cast' = << >>
    /\ UNCHANGED <<db, uuids, thr>>

\* the transaction of a call that has recorded its id
firewall_deleted_commit ==
    /\ \E id \in deleting :
          /\ Apply(firewall_deleted_txn(db, id))
          /\ deleting' = deleting \ {id}
          /\ call' = [op |-> "firewall_deleted", id |-> id,
                      first |-> TRUE,
                      was |-> IF Exists(db, id) THEN db.fw[id].status
                                                ELSE "absent"]
    /\ UNCHANGED <<uuids, firewall_deleted_ids, thr>>

\* the steps of each handler, for the API workers in W
Creates(W, max) ==
    \/ \E w \in W : crt_validate(w, max)
    \/ \E w \in W : crt_no_routers(w, max)
    \/ \E w \in W : crt_record(w)
    \/ \E w \in W : crt_assoc(w)

Updates(W) ==
    \/ \E w \in W : upd_ensure(w)
    \/ \E w \in W : upd_ensure_routers(w)
    \/ \E w \in W : upd_current(w)
    \/ \E w \in W : upd_validate(w)
    \/ \E w \in W : upd_reread(w)
    \/ \E w \in W : upd_assoc(w)
    \/ \E w \in W : upd_status(w)

Deletes(W) ==
    \/ \E w \in W : del_status(w)
    \/ \E w \in W : del_routers(w)
    \/ \E w \in W : del_get(w)
    \/ \E w \in W : del_get_routers(w)
    \/ \E w \in W : del_object(w)

Edits(W) ==
    \/ \E w \in W : edit_guard(w)
    \/ \E w \in W : edit_guard_rule(w)
    \/ \E w \in W : edit_guard_policy(w)
    \/ \E w \in W : edit_guard_get(w)
    \/ \E w \in W : edit_guard_routers(w)
    \/ \E w \in W : edit_commit(w)
    \/ \E w \in W : edit_list(w)
    \/ \E w \in W : edit_status(w)
    \/ \E w \in W : edit_lookup(w)

\* _make_firewall_dict_with_rules in the handlers above
Payloads(W) ==
    \/ \E w \in W : pay_get(w)
    \/ \E w \in W : pay_routers(w)
    \/ \E w \in W : pay_policy(w)

\* its reads of the rules: a policy has rules only once an edit has given
\* it some
RulePayloads(W) == \E w \in W : pay_rule(w)

\* ------------------------------------------------------------------------
\* One API worker serves create, update and delete requests on MaxFw
\* firewalls; the agents call between its database calls, and between the
\* append and the transaction of a firewall_deleted
\* ------------------------------------------------------------------------
Next ==
    \/ Creates({1}, MaxFw)
    \/ Updates({1})
    \/ Deletes({1})
    \/ Payloads({1})
    \/ set_firewall_status
    \/ firewall_deleted
    \/ firewall_deleted_commit

Spec == Init /\ [][Next]_vars

\* ------------------------------------------------------------------------
\* One API worker serves the policy and rule edits next to creates and
\* deletes; the agents report statuses between its database calls
\* ------------------------------------------------------------------------
NextEdit ==
    \/ Creates({1}, MaxFw)
    \/ Deletes({1})
    \/ Edits({1})
    \/ Payloads({1})
    \/ RulePayloads({1})
    \/ set_firewall_status

SpecEdit == Init /\ [][NextEdit]_vars

\* ------------------------------------------------------------------------
\* NumWorkers API workers serve create, update and delete requests on
\* MaxConcFw firewall at the same time, next to the agents' status reports
\* (the agents' firewall_deleted call is left to Spec)
\* ------------------------------------------------------------------------
NextConc ==
    \/ Creates(Workers, MaxConcFw)
    \/ Updates(Workers)
    \/ Deletes(Workers)
    \/ Payloads(Workers)
    \/ set_firewall_status

SpecConc == Init /\ [][NextConc]_vars

\* ------------------------------------------------------------------------
\* NumWorkers API workers serve create, update and delete requests on MaxFw
\* firewalls at the same time, with no agent call
\* ------------------------------------------------------------------------
NextRouters ==
    \/ Creates(Workers, MaxFw)
    \/ Updates(Workers)
    \/ Deletes(Workers)
    \/ Payloads(Workers)

SpecRouters == Init /\ [][NextRouters]_vars

\* ------------------------------------------------------------------------
\* One API worker edits policies and rules while another creates and
\* deletes MaxConcFw firewall, next to the agents' status reports
\* ------------------------------------------------------------------------
NextEditConc ==
    \/ Creates({1}, MaxConcFw)
    \/ Deletes({1})
    \/ Edits({2})
    \/ Payloads(Workers)
    \/ RulePayloads(Workers)
    \/ set_firewall_status

SpecEditConc == Init /\ [][NextEditConc]_vars

TypeOK ==
    /\ DOMAIN db.fw \subseteq Known
    /\ \A id \in DOMAIN db.fw :
          /\ db.fw[id].status \in Statuses
          /\ db.fw[id].firewall_policy_id \in Policies \cup {NoPolicy}
    /\ db.assoc \subseteq (Known \X Routers)
    /\ db.rules \in [Policies -> SUBSET Rules]
    /\ db.enabled \in [Rules -> BOOLEAN]
    /\ uuids \in 0..MaxFw
    /\ firewall_deleted_ids \subseteq Known
    /\ deleting \subseteq firewall_deleted_ids
    /\ \A w \in Workers : thr[w].pc \in Positions
    /\ call.op \in {"none", "create_firewall", "update_firewall",
                    "delete_firewall", "set_firewall_status",
                    "firewall_deleted"} \cup EditOps

\* ------------------------------------------------------------------------
\* What the interleaving of the handlers' database calls can lead to
\* ------------------------------------------------------------------------
\* a create_firewall has raised FirewallNotFound and left no record: the
\* firewall was deleted between its insertion and the read of the payload
CreateLostToDelete ==
    /\ call.op = "create_firewall"
    /\ ret = "FirewallNotFound"
    /\ ~Exists(db, call.id)

\* a delete_firewall has returned with nothing cast and the record still in
\* the store: an update_firewall that had passed its guard wrote its status
\* over PENDING_DELETE before delete_db_firewall_object read it
DeleteSkipped ==
    /\ call.op = "delete_firewall"
    /\ ret = "None"
    /\ cast = << >>
    /\ Exists(db, call.id)

\* an update_firewall has written the routers of a firewall that was deleted
\* after the guard: the association table holds a row of a missing firewall
OrphanAssociation == \E p \in db.assoc : ~Exists(db, p[1])

\* an update_firewall of a firewall that was deleted after the guard has been
\* refused its routers
InUseAfterDelete ==
    /\ call.op = "update_firewall"
    /\ ret = "RoutersInUse"
    /\ ~Exists(db, call.id)

\* two update_firewall requests for different firewalls have both validated
\* the same router and are about to write it
TwoUpdatesOneRouter ==
    \E w1, w2 \in Workers :
        /\ thr[w1].pc = "upd_assoc"
        /\ thr[w2].pc = "upd_assoc"
        /\ thr[w1].id # thr[w2].id
        /\ thr[w1].fw_new_rtrs \cap thr[w2].fw_new_rtrs # {}

\* an edit has cast an update for a firewall while the delete_firewall that
\* had put it in PENDING_DELETE is still running
EditOverDelete ==
    /\ call.op \in EditOps
    /\ ret = "ok"
    /\ \E i \in DOMAIN cast, w \in Workers :
          /\ thr[w].pc # "idle"
          /\ thr[w].op = "delete_firewall"
          /\ thr[w].id = cast[i].id

\* ------------------------------------------------------------------------
\* Properties of the handlers
\* ------------------------------------------------------------------------
\* no request is in progress: every API worker is between two requests, so
\* that the next request starts from this store
Quiet == \A w \in Workers : thr[w].pc = "idle"

Exceptions == {"FirewallNotFound", "FirewallInPendingState", "RoutersInUse",
               "DBError"}

\* C1: update_firewall raises FirewallInPendingState exactly when the
\* firewall's persisted status is one of the three PENDING_* values; from
\* ACTIVE, DOWN, INACTIVE and ERROR the guard lets it through, and an update
\* that succeeds on a firewall in ERROR leaves it in PENDING_UPDATE or INACTIVE.
C1_UpdateGuard ==
    Quiet =>
        \A id \in DOMAIN db.fw, router_args \in RouterArgs, policy \in PolicyArgs :
            LET r == update_firewall_result(db, id, router_args, policy) IN
            /\ (r.ret = "FirewallInPendingState") <=> (db.fw[id].status \in PendingStates)
            /\ db.fw[id].status \in PendingStates => r.db = db /\ r.cast = <<>>
            /\ db.fw[id].status \in {ACTIVE, DOWN, INACTIVE, ERROR}
                  => r.ret \in {"ok", "RoutersInUse"}
            /\ (db.fw[id].status = ERROR /\ r.ret = "ok")
                  => r.db.fw[id].status \in {PENDING_UPDATE, INACTIVE}

\* an update_firewall has just been refused on a firewall that a
\* delete_firewall left in PENDING_DELETE
C1_Witness ==
    /\ call.op = "update_firewall"
    /\ ret = "FirewallInPendingState"
    /\ Exists(db, call.id)
    /\ db.fw[call.id].status = PENDING_DELETE

\* C3: delete_firewall is accepted whatever the status; with routers attached
\* it persists PENDING_DELETE, casts exactly one delete_firewall message whose
\* del-router-ids are the attached routers and whose add-router-ids are empty,
\* and keeps the record.
C3_DeleteDispatch ==
    Quiet =>
        \A id \in DOMAIN db.fw :
            LET r == delete_firewall_result(db, id)
                rtrs == get_firewall_routers(db, id)
            IN  /\ r.ret = "None"
                /\ rtrs # {} =>
                      /\ Exists(r.db, id)
                      /\ r.db.fw[id].status = PENDING_DELETE
                      /\ get_firewall_routers(r.db, id) = rtrs
                      /\ Len(r.cast) = 1
                      /\ r.cast[1].msg = "delete_firewall"
                      /\ r.cast[1].id = id
                      /\ r.cast[1].status = PENDING_DELETE
                      /\ r.cast[1].del = rtrs
                      /\ r.cast[1].add = {}

C3_Witness ==
    /\ call.op = "delete_firewall"
    /\ ret = "None"
    /\ Len(cast) = 1
    /\ cast[1].msg = "delete_firewall"
    /\ cast[1].del = Routers
    /\ Exists(db, call.id)
    /\ db.fw[call.id].status = PENDING_DELETE

\* C4: set_firewall_status on a firewall in PENDING_DELETE returns False and
\* changes nothing, whatever status is reported.
C4_ReportOnPendingDelete ==
    \A id \in DOMAIN db.fw, status \in ReportedValues :
        db.fw[id].status = PENDING_DELETE =>
            LET r == set_firewall_status_result(db, id, status)
            IN  r.ret = "False" /\ r.db = db

C4_Witness ==
    /\ call.op = "set_firewall_status"
    /\ ret = "False"
    /\ Exists(db, call.id)
    /\ db.fw[call.id].status = PENDING_DELETE

\* C5: set_firewall_status on a firewall that is not in PENDING_DELETE stores
\* ACTIVE or DOWN as reported and returns True; any other reported value is
\* stored as ERROR and returns False.
C5_ReportStatus ==
    \A id \in DOMAIN db.fw, status \in ReportedValues :
        db.fw[id].status # PENDING_DELETE =>
            LET r == set_firewall_status_result(db, id, status)
            IN  /\ Exists(r.db, id)
                /\ status \in {ACTIVE, DOWN}
                      => r.db.fw[id].status = status /\ r.ret = "True"
                /\ status \notin {ACTIVE, DOWN}
                      => r.db.fw[id].status = ERROR /\ r.ret = "False"

C5_Witness ==
    /\ call.op = "set_firewall_status"
    /\ ret = "True"
    /\ Exists(db, call.id)
    /\ db.fw[call.id].status = DOWN

\* C6: the first firewall_deleted for an id whose firewall is in
\* PENDING_DELETE or ERROR removes the record and returns True.
C6_DeletedRemoves ==
    (/\ call.op = "firewall_deleted"
     /\ call.first
     /\ call.was \in {PENDING_DELETE, ERROR})
        => ret = "True" /\ ~Exists(db, call.id)

\* C7: the first firewall_deleted for an id whose firewall is in none of
\* PENDING_DELETE and ERROR keeps the record, forces it to ERROR and returns
\* False without raising.
C7_UnexpectedDelete ==
    \A id \in DOMAIN db.fw :
        (id \notin firewall_deleted_ids /\ db.fw[id].status \notin {PENDING_DELETE, ERROR})
            => LET r == firewall_deleted_result(db, firewall_deleted_ids, id)
               IN  /\ r.ret = "False"
                   /\ Exists(r.db, id)
                   /\ r.db.fw[id].status = ERROR
                   /\ get_firewall_routers(r.db, id) = get_firewall_routers(db, id)

C7_Witness ==
    /\ call.op = "firewall_deleted"
    /\ call.first
    /\ call.was = PENDING_UPDATE
    /\ ret = "False"
    /\ Exists(db, call.id)
    /\ db.fw[call.id].status = ERROR

C9_NoRoutersInactive ==
    /\ \A id \in DOMAIN db.fw :
          get_firewall_routers(db, id) = {} => db.fw[id].status = INACTIVE
    /\ \A i \in DOMAIN cast : get_firewall_routers(db, cast[i].id) # {}

\* C9, amended: create_firewall with no resolved router, and update_firewall
\* on a firewall that has no router before and none after, leave the firewall
\* INACTIVE and cast nothing.
C9_NoRoutersNoDispatch ==
    Quiet =>
        /\ \A tenant \in Tenants, router_args \in RouterArgs,
             policy \in Policies \cup {NoPolicy} :
              LET r == create_firewall_result(db, uuids + 1, tenant, router_args, policy)
              IN  (r.ret = "ok" /\ get_firewall_routers(r.db, uuids + 1) = {})
                     => r.db.fw[uuids + 1].status = INACTIVE /\ r.cast = <<>>
        /\ \A id \in DOMAIN db.fw, router_args \in RouterArgs, policy \in PolicyArgs :
              LET r == update_firewall_result(db, id, router_args, policy)
              IN  (/\ r.ret = "ok"
                   /\ get_firewall_routers(db, id) = {}
                   /\ get_firewall_routers(r.db, id) = {})
                     => r.db.fw[id].status = INACTIVE /\ r.cast = <<>>

C9_Witness ==
    /\ call.op = "update_firewall"
    /\ ret = "ok"
    /\ cast = <<>>
    /\ Exists(db, call.id)
    /\ db.fw[call.id].status = INACTIVE
    /\ get_firewall_routers(db, call.id) = {}

\* C10: create_firewall resolves the routers (the ids given, or the tenant's
\* routers when none are given); with a non-empty set the firewall starts in
\* PENDING_CREATE, is associated with exactly those routers and one
\* create_firewall message is cast with them as add-router-ids and no
\* del-router-ids; with an empty set it starts INACTIVE, without associations,
\* and nothing is cast.
C10_Create ==
    Quiet =>
        \A tenant \in Tenants, router_args \in RouterArgs,
             policy \in Policies \cup {NoPolicy} :
            LET id == uuids + 1
                r == create_firewall_result(db, id, tenant, router_args, policy)
                resolved == IF router_args.specified
                            THEN router_args.ids
                            ELSE {x \in Routers : RouterTenant(x) = tenant}
            IN  (uuids < MaxFw /\ r.ret = "ok") =>
                /\ Exists(r.db, id)
                /\ get_firewall_routers(r.db, id) = resolved
                /\ resolved # {} =>
                      /\ r.db.fw[id].status = PENDING_CREATE
                      /\ Len(r.cast) = 1
                      /\ r.cast[1].msg = "create_firewall"
                      /\ r.cast[1].id = id
                      /\ r.cast[1].add = resolved
                      /\ r.cast[1].del = {}
                /\ resolved = {} =>
                      /\ r.db.fw[id].status = INACTIVE
                      /\ r.cast = <<>>

C10_Witness ==
    /\ call.op = "create_firewall"
    /\ ret = "ok"
    /\ Len(cast) = 1
    /\ cast[1].msg = "create_firewall"
    /\ cast[1].add = {2}
    /\ cast[1].del = {}
    /\ db.fw[call.id].status = PENDING_CREATE
    /\ get_firewall_routers(db, call.id) = {2}

\* C2: no two requests for the same firewall have both passed the
\* pending-state guard and both written PENDING_UPDATE, each with its update
\* notification still to cast: at most one mutation per firewall is in flight.
C2_OneMutationInFlight ==
    \A w1, w2 \in Workers :
        (/\ w1 # w2
         /\ thr[w1].pc \in PayloadPositions
         /\ thr[w1].op = "update_firewall"
         /\ thr[w2].pc \in PayloadPositions
         /\ thr[w2].op = "update_firewall")
            => thr[w1].id # thr[w2].id

\* C11, as stated: a successful update_firewall that leaves the firewall
\* without routers leaves it INACTIVE and casts nothing, whatever routers it
\* had before; PENDING_UPDATE is set only when routers remain.
C11_EmptyResultInactive ==
    (/\ call.op = "update_firewall"
     /\ ret = "ok")
        => /\ get_firewall_routers(db, call.id) = {}
                 => db.fw[call.id].status = INACTIVE /\ cast = <<>>
           /\ db.fw[call.id].status = PENDING_UPDATE
                 => get_firewall_routers(db, call.id) # {}

\* C11, amended: a successful update_firewall leaves the firewall INACTIVE
\* and casts nothing exactly when the firewall has no router before the update
\* and none after it; in every other case, an update that removes the last
\* router included, it sets PENDING_UPDATE and casts one update_firewall
\* message.
C11_EmptyBeforeAndAfter ==
    Quiet =>
        \A id \in DOMAIN db.fw, router_args \in RouterArgs, policy \in PolicyArgs :
            LET r == update_firewall_result(db, id, router_args, policy)
                C == get_firewall_routers(db, id)
                N == get_firewall_routers(r.db, id)
            IN  r.ret = "ok" =>
                   IF C = {} /\ N = {}
                   THEN r.db.fw[id].status = INACTIVE /\ r.cast = <<>>
                   ELSE /\ r.db.fw[id].status = PENDING_UPDATE
                        /\ Len(r.cast) = 1
                        /\ r.cast[1].msg = "update_firewall"
                        /\ r.cast[1].id = id
                        /\ r.cast[1].status = PENDING_UPDATE

\* an update has just removed the only router of a firewall
C11_Witness ==
    /\ call.op = "update_firewall"
    /\ ret = "ok"
    /\ Exists(db, call.id)
    /\ get_firewall_routers(db, call.id) = {}
    /\ db.fw[call.id].status = PENDING_UPDATE
    /\ Len(cast) = 1
    /\ cast[1].del = {1}

\* C12: in every update_firewall message, with C the routers before the
\* update (call.rtrs) and N the routers after it, add-router-ids = N \ C and
\* del-router-ids = C \ N, so the two are disjoint and N = (C \ del) \cup add.
C12_RouterDiff ==
    (/\ call.op = "update_firewall"
     /\ ret = "ok"
     /\ cast # <<>>)
        => LET C == call.rtrs
               N == get_firewall_routers(db, call.id)
           IN  /\ cast[1].add = N \ C
               /\ cast[1].del = C \ N
               /\ cast[1].add \cap cast[1].del = {}
               /\ N = (C \ cast[1].del) \cup cast[1].add

\* C13: update_firewall with router_ids = [] on a non-pending firewall with
\* routers C # {} removes every association of the firewall, persists
\* PENDING_UPDATE and casts exactly one update_firewall message with
\* add-router-ids = {}, del-router-ids = C and last-router true; in every
\* message update_firewall casts, last-router is true iff the new router set
\* is empty.
C13_RemoveLastRouter ==
    Quiet =>
        \A id \in DOMAIN db.fw, policy \in PolicyArgs :
            LET C == get_firewall_routers(db, id) IN
            /\ (db.fw[id].status \notin PendingStates /\ C # {}) =>
                  LET r == update_firewall_result(db, id,
                               [specified |-> TRUE, ids |-> {}], policy)
                  IN  /\ r.ret = "ok"
                      /\ get_firewall_routers(r.db, id) = {}
                      /\ \A o \in DOMAIN db.fw \ {id} :
                            get_firewall_routers(r.db, o) = get_firewall_routers(db, o)
                      /\ r.db.fw[id].status = PENDING_UPDATE
                      /\ Len(r.cast) = 1
                      /\ r.cast[1].msg = "update_firewall"
                      /\ r.cast[1].id = id
                      /\ r.cast[1].add = {}
                      /\ r.cast[1].del = C
                      /\ r.cast[1].last_router = "True"
            /\ \A router_args \in RouterArgs :
                  LET r == update_firewall_result(db, id, router_args, policy)
                  IN  \A i \in DOMAIN r.cast :
                         (r.cast[i].last_router = "True")
                            <=> (get_firewall_routers(r.db, id) = {})

\* an update with router_ids = [] has just detached both routers
C13_Witness ==
    /\ call.op = "update_firewall"
    /\ ret = "ok"
    /\ Len(cast) = 1
    /\ cast[1].add = {}
    /\ cast[1].del = Routers
    /\ cast[1].last_router = "True"
    /\ get_firewall_routers(db, call.id) = {}
    /\ db.fw[call.id].status = PENDING_UPDATE

\* delete_firewall run alone on a firewall without routers, whatever its
\* status, casts nothing and removes the record; the other firewalls are
\* left as they were
DeleteAloneRemoves ==
    Quiet =>
        \A id \in DOMAIN db.fw :
            get_firewall_routers(db, id) = {} =>
                LET r == delete_firewall_result(db, id)
                IN  /\ r.ret = "None"
                    /\ r.cast = <<>>
                    /\ ~Exists(r.db, id)
                    /\ \A o \in DOMAIN db.fw \ {id} :
                          /\ Exists(r.db, o)
                          /\ r.db.fw[o] = db.fw[o]
                    /\ r.db.assoc = db.assoc

\* a delete_firewall has just removed a record without telling the agents
DeleteAloneRemoved ==
    /\ call.op = "delete_firewall"
    /\ ret = "None"
    /\ cast = <<>>
    /\ call.id \in Known
    /\ ~Exists(db, call.id)

\* C14: a delete_firewall that found no router attached and has returned
\* without casting has removed the record: the record is absent from the
\* store when the handler returns.
C14_DeleteNoRouters ==
    (call.op = "delete_firewall" /\ ret = "None" /\ cast = <<>>)
        => ~Exists(db, call.id)

\* C17: a create_firewall or update_firewall that raises RoutersInUse or
\* FirewallInPendingState has written nothing and cast nothing: no record is
\* created, no status and no router association changes.
C17_FailureNoEffect ==
    Quiet =>
        /\ \A tenant \in Tenants, router_args \in RouterArgs,
             policy \in Policies \cup {NoPolicy} :
              LET r == create_firewall_result(db, uuids + 1, tenant, router_args, policy)
              IN  r.ret \in {"RoutersInUse", "FirewallInPendingState"}
                     => r.db = db /\ r.cast = <<>>
        /\ \A id \in DOMAIN db.fw, router_args \in RouterArgs, policy \in PolicyArgs :
              LET r == update_firewall_result(db, id, router_args, policy)
              IN  r.ret \in {"RoutersInUse", "FirewallInPendingState"}
                     => r.db = db /\ r.cast = <<>>

\* an update_firewall asking for a router of another firewall has just been
\* refused
C17_Witness ==
    /\ call.op = "update_firewall"
    /\ ret = "RoutersInUse"
    /\ cast = <<>>
    /\ Cardinality(DOMAIN db.fw) = 2
    /\ \E r \in Routers : <<call.id, r>> \notin db.assoc

\* C15: an edit (update_firewall_policy, update_firewall_rule, insert_rule,
\* remove_rule) of a policy with at least one referencing firewall in a
\* PENDING_* status raises FirewallInPendingState, leaves the policy/rule
\* store and every firewall as they were and casts nothing.
C15_EditRefusedWhole ==
    Quiet =>
        \A policy \in Policies :
            (\E id \in firewall_list(db, policy) : db.fw[id].status \in PendingStates)
            => \A lookup_ok \in BOOLEAN, order \in Orders(firewall_list(db, policy)) :
                  /\ \A rules \in SUBSET Rules :
                        LET r == update_firewall_policy_result(db, policy, rules,
                                                               order, lookup_ok)
                        IN  /\ r.ret = "FirewallInPendingState"
                            /\ r.db = db
                            /\ r.cast = <<>>
                  /\ \A rule \in Rules :
                        LET i == insert_rule_result(db, policy, rule, order, lookup_ok)
                            o == remove_rule_result(db, policy, rule, order, lookup_ok)
                        IN  /\ i.ret = "FirewallInPendingState"
                            /\ i.db = db
                            /\ i.cast = <<>>
                            /\ o.ret = "FirewallInPendingState"
                            /\ o.db = db
                            /\ o.cast = <<>>
                  /\ \A rule \in db.rules[policy], enabled \in BOOLEAN :
                        LET r == update_firewall_rule_result(db, rule, enabled,
                                                             order, lookup_ok)
                        IN  /\ r.ret = "FirewallInPendingState"
                            /\ r.db = db
                            /\ r.cast = <<>>

\* an edit of a rule has just been refused: its policy is referenced by an
\* ACTIVE firewall and by a pending one, and the ACTIVE one is still ACTIVE
C15_Witness ==
    /\ call.op = "update_firewall_rule"
    /\ ret = "FirewallInPendingState"
    /\ cast = <<>>
    /\ \E f1, f2 \in rule_firewalls(db, call.id) :
          /\ db.fw[f1].status = ACTIVE
          /\ db.fw[f2].status \in PendingStates

\* C16: after an edit that passed the guard, every firewall referencing the
\* policy is in PENDING_UPDATE and exactly one update_firewall message has been
\* cast for each of them, with add-router-ids and del-router-ids empty; the
\* edit changes no router association and touches no other firewall.
C16_EditFanOut ==
    /\ (/\ call.op \in {"update_firewall_policy", "update_firewall_rule",
                        "insert_rule", "remove_rule"}
        /\ ret \notin {"FirewallInPendingState", "FirewallRuleInUse",
                      "FirewallRuleNotAssociatedWithPolicy"})
       => LET fws == IF call.op = "update_firewall_rule"
                     THEN rule_firewalls(db, call.id)
                     ELSE firewall_list(db, call.id)
          IN  /\ \A id \in fws : db.fw[id].status = PENDING_UPDATE
              /\ Len(cast) = Cardinality(fws)
              /\ \A id \in fws : \E i \in DOMAIN cast : cast[i].id = id
              /\ \A i \in DOMAIN cast :
                    /\ cast[i].msg = "update_firewall"
                    /\ cast[i].add = {}
                    /\ cast[i].del = {}
    /\ \A policy \in Policies, rule \in Rules, lookup_ok \in BOOLEAN :
       \A order \in Orders(firewall_list(db, policy)) :
          LET r == insert_rule_result(db, policy, rule, order, lookup_ok)
          IN  /\ r.db.assoc = db.assoc
              /\ DOMAIN r.db.fw = DOMAIN db.fw
              /\ \A id \in DOMAIN db.fw \ firewall_list(db, policy) :
                    r.db.fw[id] = db.fw[id]

\* C18: every router is associated with at most one firewall, in every state
\* that interleaved create_firewall and update_firewall requests can reach.
C18_RouterOneFirewall ==
    \A p, q \in db.assoc : p[2] = q[2] => p[1] = q[1]

\* C19: delete wins: a firewall in PENDING_DELETE stays in PENDING_DELETE
\* until its record is removed, whatever update_firewall request or agent
\* call runs next.
C19_DeleteWins ==
    [][\A id \in DOMAIN db.fw :
          db.fw[id].status = PENDING_DELETE
             => (~Exists(db', id) \/ db'.fw[id].status = PENDING_DELETE)]_vars

\* C20: a firewall_deleted call that finds the firewall in PENDING_DELETE
\* removes the record, whatever agent calls came before the delete_firewall.
C20_DeleteCompletes ==
    (/\ call.op = "firewall_deleted"
     /\ call.was = PENDING_DELETE)
        => ~Exists(db, call.id)

====
